---------------------------- MODULE Spec2Model ----------------------------
(***************************************************************************)
(* Model of src/main.py: the flood-risk overlay batch job.                 *)
(*                                                                         *)
(* Text (paths, prefixes, titles, printed lines) is a sequence of          *)
(* one-character strings, so that concatenation, str() and the extension   *)
(* handling of file names are computed and not assumed.                    *)
(* A geometry is a finite set of integer cells of a one-dimensional grid;  *)
(* two geometries overlap when they share a cell and their intersection is *)
(* the set intersection.                                                   *)
(***************************************************************************)
EXTENDS Integers, Sequences, FiniteSets, TLC

VARIABLES
    pc,       \* position of main(): a driver state, or "Failed"
    frame,    \* main()'s local variables: name -> value, bound names only
    it,       \* number of items the for loop of main() has consumed
    fs,       \* the filesystem: path -> file
    stdout,   \* the lines printed so far
    calls,    \* history: the library calls that touched files, in order
    error,    \* the exception that ended the run, "none" while running
    faults,   \* the environment of this run: which I/O operations fail
    arg,      \* harness: the input of the function under test
    ret,      \* harness: its result
    called    \* harness: whether it has been applied

vars == <<pc, frame, it, fs, stdout, calls, error, faults, arg, ret, called>>

driverVars == <<pc, frame, it, fs, stdout, calls, error, faults>>

harnessVars == <<arg, ret, called>>

---------------------------------------------------------------------------
(* Bounds of the model.                                                    *)

\* most entries of the configuration's `inputs` array
MaxJobs == 2

\* most entries of `inputs` when extract_config is checked on its own
MaxInputs == 2

\* cells of the grid the overlay is checked on: 1..GridSize
GridSize == 2

\* most features of the base (asset) collection given to the overlay
MaxBase == 2

\* most features of the clip (risk) collection given to the overlay
MaxClip == 2

---------------------------------------------------------------------------
(* Text.                                                                   *)

Digit == <<"0", "1", "2", "3", "4", "5", "6", "7", "8", "9">>

\* str(n) for an int n >= 0: the decimal digits, most significant first
RECURSIVE str(_)
str(n) == IF n < 10 THEN <<Digit[n + 1]>>
          ELSE str(n \div 10) \o <<Digit[(n % 10) + 1]>>

\* dict.get(key, default)
Get(d, key, default) == IF key \in DOMAIN d THEN d[key] ELSE default

\* the largest index of character c in s, 0 when there is none (str.rfind + 1)
rfind(s, c) ==
    LET hits == {i \in 1..Len(s) : s[i] = c}
    IN  IF hits = {} THEN 0 ELSE CHOOSE i \in hits : \A j \in hits : j <= i

\* s.rstrip('.')
RECURSIVE rstrip_dot(_)
rstrip_dot(s) == IF s # <<>> /\ s[Len(s)] = "."
                 THEN rstrip_dot(SubSeq(s, 1, Len(s) - 1))
                 ELSE s

\* os.path.splitext(p)[1]: from the last dot of the last path component on,
\* unless only dots precede it in that component
splitext_ext(p) ==
    LET sep == rfind(p, "/")
        dot == rfind(p, ".")
    IN  IF dot > sep /\ \E i \in (sep + 1)..(dot - 1) : p[i] # "."
        THEN SubSeq(p, dot, Len(p))
        ELSE <<>>

---------------------------------------------------------------------------
(* extract_config.                                                         *)

ConfigKeys == {"risk_layer_path", "asset_layer_path", "command_read_out", "plot_title"}

\* the title read from the wrong key
ExtractItemWrongKey(item) ==
    [risk_layer_path  |-> Get(item, "risk_layer_path", <<>>),
     asset_layer_path |-> Get(item, "asset_layer_path", <<>>),
     command_read_out |-> Get(item, "command_read_out", <<>>),
     plot_title       |-> Get(item, "command_read_out", <<>>)]

\* the dictionary appended for one item of `inputs`
ExtractItem(item) ==
    [risk_layer_path  |-> Get(item, "risk_layer_path", <<>>),
     asset_layer_path |-> Get(item, "asset_layer_path", <<>>),
     command_read_out |-> Get(item, "command_read_out", <<>>),
     plot_title       |-> Get(item, "plot_title", <<>>)]

\* extract_config on the parsed document: one dictionary per item of
\* config.get('inputs', []), in order
extract_config(config) ==
    LET inputs == Get(config, "inputs", <<>>)
    IN  [i \in 1..Len(inputs) |-> ExtractItem(inputs[i])]

---------------------------------------------------------------------------
(* Layers: the geopandas calls of load_geojson, main and overlay_maps.     *)

WGS84 == "EPSG:4326"

MERCATOR == "EPSG:3857"

\* where the origin of a CRS lies on the common grid: the same place has
\* different coordinates in different CRSs
Origin(crs) == IF crs = WGS84 THEN 0 ELSE 100

\* the coordinate in CRS `to` of the place with coordinate c in CRS `from`
Transform(c, from, to) == c - Origin(from) + Origin(to)

\* gdf.to_crs(crs): every geometry reprojected, the collection tagged crs
to_crs(gdf, crs) ==
    [crs      |-> crs,
     features |-> [i \in 1..Len(gdf.features) |->
                     [geom       |-> {Transform(c, gdf.crs, crs) : c \in gdf.features[i].geom},
                      properties |-> gdf.features[i].properties]]]

\* gpd.read_file(file_path) succeeds on an existing GeoJSON document
CanRead(disk, file_path) ==
    file_path \in DOMAIN disk /\ disk[file_path].kind = "geojson"

\* load_geojson(file_path): the GeoDataFrame of the document
load_geojson(disk, file_path) ==
    [crs |-> disk[file_path].crs, features |-> disk[file_path].features]

\* gpd.overlay(df1, df2, how='intersection'): one row per pair (row of df1,
\* row of df2) whose geometries intersect, ordered by df1 then df2, with the
\* intersection as geometry and the columns of both rows
gpd_overlay_intersection(df1, df2) ==
    LET n1 == Len(df1.features)
        n2 == Len(df2.features)
        pair(k) == <<((k - 1) \div n2) + 1, ((k - 1) % n2) + 1>>
        all == [k \in 1..(n1 * n2) |-> pair(k)]
        meets(p) == df1.features[p[1]].geom \cap df2.features[p[2]].geom # {}
        hit == SelectSeq(all, meets)
    IN  [crs      |-> df1.crs,
         features |-> [k \in 1..Len(hit) |->
                         [geom       |-> df1.features[hit[k][1]].geom
                                           \cap df2.features[hit[k][2]].geom,
                          properties |-> df1.features[hit[k][1]].properties
                                           @@ df2.features[hit[k][2]].properties]]]

\* how='identity' in place of how='intersection': the properties outside
\* every zone are kept, with no zone
overlay_maps_identity(flood_risk_gdf, property_gdf) ==
    LET inside == gpd_overlay_intersection(property_gdf, flood_risk_gdf)
        outside(f) == \A j \in 1..Len(flood_risk_gdf.features) :
                          f.geom \cap flood_risk_gdf.features[j].geom = {}
        kept == SelectSeq(property_gdf.features, outside)
    IN  [crs      |-> inside.crs,
         features |-> inside.features \o
                      [k \in 1..Len(kept) |->
                         [geom       |-> kept[k].geom,
                          properties |-> kept[k].properties @@ [zone |-> 0]]]]

\* overlay_maps(flood_risk_gdf, property_gdf)
overlay_maps(flood_risk_gdf, property_gdf) ==
    gpd_overlay_intersection(property_gdf, flood_risk_gdf)

\* a writer that skips an empty collection
save_geojson_unless_empty(disk, gdf, output_path) ==
    IF gdf.features = <<>> THEN disk
    ELSE (output_path :> [kind |-> "geojson", crs |-> gdf.crs, features |-> gdf.features]) @@ disk

\* gdf.to_file(output_path, driver='GeoJSON'): the document that replaces
\* whatever output_path held
save_geojson(disk, gdf, output_path) ==
    (output_path :> [kind |-> "geojson", crs |-> gdf.crs, features |-> gdf.features]) @@ disk

---------------------------------------------------------------------------
(* plot_and_save_properties.                                               *)

PNG == <<"p", "n", "g">>

\* the formats the canvas of plt.savefig can write (lower case)
SupportedFormats ==
    {PNG, <<"p", "d", "f">>, <<"s", "v", "g">>, <<"j", "p", "g">>, <<"e", "p", "s">>,
     <<"p", "s">>, <<"t", "i", "f">>, <<"r", "a", "w">>}

\* the format the name asks for: os.path.splitext(fname)[1][1:]
format_of_name(fname) ==
    LET ext == splitext_ext(fname)
    IN  SubSeq(ext, 2, Len(ext))

\* the format plt.savefig(fname) writes: the one the name asks for, or the
\* default format (savefig.format, 'png') when it asks for none
savefig_format(fname) ==
    IF format_of_name(fname) = <<>> THEN PNG ELSE format_of_name(fname)

\* savefig writing to the name it is given, whatever the name
savefig_path_verbatim(fname) == fname

\* the file plt.savefig(fname) writes: fname when it names a format, else
\* fname.rstrip('.') + '.' + the default format
savefig_path(fname) ==
    IF format_of_name(fname) = <<>> THEN rstrip_dot(fname) \o <<".">> \o PNG ELSE fname

\* the image plot_and_save_properties draws: the three layers and the title
Figure(flood_risk_gdf, property_gdf, at_risk_properties, plot_title) ==
    [kind     |-> "image",
     format   |-> savefig_format(plot_title),
     title    |-> plot_title,
     risk     |-> flood_risk_gdf,
     assets   |-> property_gdf,
     at_risk  |-> at_risk_properties]

---------------------------------------------------------------------------
(* The files and configurations the driver is run on.                      *)

CONFIG_PATH == <<"c", "o", "n", "f", "i", "g", ".", "j", "s", "o", "n">>

JSON_EXT == <<".", "j", "s", "o", "n">>

R1 == <<"r", "1">>

R2 == <<"r", "2">>

A1 == <<"a", "1">>

A2 == <<"a", "2">>

A3 == <<"a", "3">>

A4 == <<"a", "4">>

Point(c, name) == [geom |-> {c}, properties |-> [address |-> name]]

Zone(cells, name) == [geom |-> cells, properties |-> [zone |-> name]]

\* the layer files: R1 is one square, A1 has two of three points inside it,
\* A2 is A1's neighbourhood in another CRS, A3 lies outside every zone,
\* R2 holds two overlapping zones (in the other CRS) and A4 five points
\* inside both
LayerFiles ==
    (R1 :> [kind |-> "geojson", crs |-> WGS84,
            features |-> <<Zone(0..10, "z1")>>])
    @@ (R2 :> [kind |-> "geojson", crs |-> MERCATOR,
               features |-> <<Zone(100..110, "z1"), Zone(103..115, "z2")>>])
    @@ (A1 :> [kind |-> "geojson", crs |-> WGS84,
               features |-> <<Point(2, "p1"), Point(8, "p2"), Point(20, "p3")>>])
    @@ (A2 :> [kind |-> "geojson", crs |-> MERCATOR,
               features |-> <<Point(105, "p1"), Point(130, "p2")>>])
    @@ (A3 :> [kind |-> "geojson", crs |-> WGS84,
               features |-> <<Point(20, "p1"), Point(30, "p2")>>])
    @@ (A4 :> [kind |-> "geojson", crs |-> WGS84,
               features |-> <<Point(4, "p1"), Point(5, "p2"), Point(6, "p3"),
                              Point(7, "p4"), Point(8, "p5")>>])

\* files of an earlier run, at the paths the title "m" leads to
StaleFiles ==
    ((<<"m">> \o JSON_EXT) :> [kind |-> "stale"])
    @@ (<<"m", ".", "p", "n", "g">> :> [kind |-> "stale"])

\* the entries `inputs` is drawn from; a key may be missing
JobItems ==
    { [risk_layer_path |-> R1, asset_layer_path |-> A1,
       command_read_out |-> <<"n", ":", " ">>, plot_title |-> <<"m">>],
      [risk_layer_path |-> R1, asset_layer_path |-> A2,
       plot_title |-> <<"q", ".", "p", "n", "g">>],
      [risk_layer_path |-> R1, asset_layer_path |-> A3,
       command_read_out |-> <<"k", "=">>],
      [risk_layer_path |-> R2, asset_layer_path |-> A4,
       command_read_out |-> <<"n", ":", " ">>, plot_title |-> <<"m", ".">>],
      [risk_layer_path |-> R1, asset_layer_path |-> A1,
       command_read_out |-> <<"k", "=">>, plot_title |-> <<"m", ".", "x">>],
      [risk_layer_path |-> R1, plot_title |-> <<"m">>],
      [asset_layer_path |-> A1, plot_title |-> <<"m">>] }

\* the sequences over S of length at most n
SeqUpTo(S, n) == UNION {[1..k -> S] : k \in 0..n}

\* what may lie at config.json: nothing (the file is missing), text that is
\* not JSON, or a JSON object with or without the key `inputs`
ConfigFiles ==
    {<<>>}
    \cup {(CONFIG_PATH :> [kind |-> "text"])}
    \cup {(CONFIG_PATH :> [kind |-> "json", doc |-> <<>>])}
    \cup {(CONFIG_PATH :> [kind |-> "json", doc |-> [inputs |-> js]]) :
             js \in SeqUpTo(JobItems, MaxJobs)}

\* the filesystem before the run
Disk0(cf) == cf @@ LayerFiles @@ StaleFiles

Faults == {"WriteError", "BasemapFetchError"}

---------------------------------------------------------------------------
(* main().                                                                 *)

\* assignment to a local variable
Bind(fr, name, value) == (name :> value) @@ fr

Init ==
    /\ pc = "Init"
    /\ frame = <<>>
    /\ it = 0
    /\ \E cf \in ConfigFiles : fs = Disk0(cf)
    /\ stdout = <<>>
    /\ calls = <<>>
    /\ error = "none"
    /\ faults \in SUBSET Faults
    /\ arg = <<>>
    /\ ret = <<>>
    /\ called = FALSE

\* line 97: config_items = extract_config('config.json')
ExtractConfig ==
    /\ pc = "Init"
    /\ \/ /\ CONFIG_PATH \notin DOMAIN fs
          /\ pc' = "Failed"
          /\ error' = "ConfigReadError"
          /\ UNCHANGED frame
       \/ /\ CONFIG_PATH \in DOMAIN fs
          /\ fs[CONFIG_PATH].kind # "json"
          /\ pc' = "Failed"
          /\ error' = "ConfigParseError"
          /\ UNCHANGED frame
       \/ /\ CONFIG_PATH \in DOMAIN fs
          /\ fs[CONFIG_PATH].kind = "json"
          /\ frame' = Bind(frame, "config_items", extract_config(fs[CONFIG_PATH].doc))
          /\ pc' = "ConfigLoaded"
          /\ UNCHANGED error
    /\ UNCHANGED <<it, fs, stdout, calls, faults, harnessVars>>

\* the loop stopping after its first item
LoopItemFirst(config_items, n) == config_items[1]

\* the item the n-th iteration of `for idx, item in enumerate(config_items)` binds
LoopItem(config_items, n) == config_items[n]

\* lines 99-103: one iteration of the loop
ForLoop ==
    /\ pc = "ConfigLoaded"
    /\ it < Len(frame.config_items)
    /\ LET item == LoopItem(frame.config_items, it + 1)
       IN  frame' = Bind(Bind(Bind(Bind(Bind(Bind(frame,
                        "idx", it),
                        "item", item),
                        "risk_layer_path", item.risk_layer_path),
                        "asset_layer_path", item.asset_layer_path),
                        "command_read_out", item.command_read_out),
                        "plot_title", item.plot_title)
    /\ it' = it + 1
    /\ UNCHANGED <<pc, fs, stdout, calls, error, faults, harnessVars>>

\* the job fields given defaults before the loop, so that an empty
\* configuration goes on with empty strings
BuildOutputPathDefaulting ==
    /\ pc = "ConfigLoaded"
    /\ it = Len(frame.config_items)
    /\ LET fr == frame @@ [k \in ConfigKeys |-> <<>>]
       IN  frame' = Bind(fr, "output_path", fr.plot_title \o JSON_EXT)
    /\ pc' = "JobBound"
    /\ UNCHANGED <<it, fs, stdout, calls, error, faults, harnessVars>>

\* line 105, after the loop: output_path = plot_title+'.json'
BuildOutputPath ==
    /\ pc = "ConfigLoaded"
    /\ it = Len(frame.config_items)
    /\ \/ /\ "plot_title" \in DOMAIN frame
          /\ frame' = Bind(frame, "output_path", frame.plot_title \o JSON_EXT)
          /\ pc' = "JobBound"
          /\ UNCHANGED error
       \/ /\ "plot_title" \notin DOMAIN frame
          /\ pc' = "Failed"
          /\ error' = "UnboundLocalError"
          /\ UNCHANGED frame
    /\ UNCHANGED <<it, fs, stdout, calls, faults, harnessVars>>

\* line 108: risk_layer_gdf = load_geojson(risk_layer_path)
LoadRisk ==
    /\ pc = "JobBound"
    /\ calls' = Append(calls, [op |-> "read_file", path |-> frame.risk_layer_path])
    /\ \/ /\ CanRead(fs, frame.risk_layer_path)
          /\ frame' = Bind(frame, "risk_layer_gdf", load_geojson(fs, frame.risk_layer_path))
          /\ pc' = "RiskLoaded"
          /\ UNCHANGED error
       \/ /\ ~CanRead(fs, frame.risk_layer_path)
          /\ pc' = "Failed"
          /\ error' = "LayerLoadError"
          /\ UNCHANGED frame
    /\ UNCHANGED <<it, fs, stdout, faults, harnessVars>>

\* line 109: asset_gdf = load_geojson(asset_layer_path)
LoadAsset ==
    /\ pc = "RiskLoaded"
    /\ calls' = Append(calls, [op |-> "read_file", path |-> frame.asset_layer_path])
    /\ \/ /\ CanRead(fs, frame.asset_layer_path)
          /\ frame' = Bind(frame, "asset_gdf", load_geojson(fs, frame.asset_layer_path))
          /\ pc' = "LayersLoaded"
          /\ UNCHANGED error
       \/ /\ ~CanRead(fs, frame.asset_layer_path)
          /\ pc' = "Failed"
          /\ error' = "LayerLoadError"
          /\ UNCHANGED frame
    /\ UNCHANGED <<it, fs, stdout, faults, harnessVars>>

\* the reprojection left out
NormalizedAssetsAsLoaded(asset_gdf, risk_layer_gdf) == asset_gdf

\* the right-hand side of line 112: asset_gdf.to_crs(risk_layer_gdf.crs)
NormalizedAssets(asset_gdf, risk_layer_gdf) == to_crs(asset_gdf, risk_layer_gdf.crs)

\* line 112: asset_gdf = asset_gdf.to_crs(risk_layer_gdf.crs)
Normalize ==
    /\ pc = "LayersLoaded"
    /\ frame' = Bind(frame, "asset_gdf", NormalizedAssets(frame.asset_gdf, frame.risk_layer_gdf))
    /\ pc' = "Normalized"
    /\ UNCHANGED <<it, fs, stdout, calls, error, faults, harnessVars>>

\* line 115: at_risk_properties = overlay_maps(risk_layer_gdf, asset_gdf)
Overlay ==
    /\ pc = "Normalized"
    /\ frame' = Bind(frame, "at_risk_properties",
                     overlay_maps(frame.risk_layer_gdf, frame.asset_gdf))
    /\ calls' = Append(calls, [op |-> "overlay", base |-> frame.asset_gdf,
                                clip |-> frame.risk_layer_gdf])
    /\ pc' = "Overlaid"
    /\ UNCHANGED <<it, fs, stdout, error, faults, harnessVars>>

\* line 118: save_geojson(at_risk_properties, output_path); a write that
\* fails leaves the path as it was or holding a truncated document
Save ==
    /\ pc = "Overlaid"
    /\ calls' = Append(calls, [op |-> "to_file", path |-> frame.output_path])
    /\ \/ /\ "WriteError" \notin faults
          /\ fs' = save_geojson(fs, frame.at_risk_properties, frame.output_path)
          /\ pc' = "Written"
          /\ UNCHANGED error
       \/ /\ "WriteError" \in faults
          /\ \/ fs' = fs
             \/ fs' = (frame.output_path :> [kind |-> "text"]) @@ fs
          /\ pc' = "Failed"
          /\ error' = "WriteError"
    /\ UNCHANGED <<frame, it, stdout, faults, harnessVars>>

\* the line with a separator between prefix and count
report_line_spaced(command_read_out, at_risk_properties) ==
    command_read_out \o <<" ">> \o str(Len(at_risk_properties.features))

\* the argument of print at line 121: command_read_out+str(len(at_risk_properties))
report_line(command_read_out, at_risk_properties) ==
    command_read_out \o str(Len(at_risk_properties.features))

\* line 121: print(...)
Report ==
    /\ pc = "Written"
    /\ stdout' = Append(stdout, report_line(frame.command_read_out, frame.at_risk_properties))
    /\ pc' = "Reported"
    /\ UNCHANGED <<frame, it, fs, calls, error, faults, harnessVars>>

\* the path without its file
Remove(disk, path) == [q \in DOMAIN disk \ {path} |-> disk[q]]

\* a renderer that removes the result file when the basemap cannot be fetched
RenderRollingBack ==
    /\ pc = "Reported"
    /\ "BasemapFetchError" \in faults
    /\ fs' = Remove(fs, frame.output_path)
    /\ pc' = "Failed"
    /\ error' = "BasemapFetchError"
    /\ UNCHANGED <<frame, it, stdout, calls, faults, harnessVars>>

\* a renderer that goes back to the report when the basemap cannot be fetched
RenderRetrying ==
    /\ pc = "Reported"
    /\ "BasemapFetchError" \in faults
    /\ Len(stdout) < 2
    /\ pc' = "Written"
    /\ UNCHANGED <<frame, it, fs, stdout, calls, error, faults, harnessVars>>

\* line 124: plot_and_save_properties(risk_layer_gdf, asset_gdf,
\* at_risk_properties, plot_title): the layers are drawn, the basemap is
\* fetched (line 61), the figure is saved (line 67)
Render ==
    /\ pc = "Reported"
    /\ \/ /\ "BasemapFetchError" \in faults
          /\ pc' = "Failed"
          /\ error' = "BasemapFetchError"
          /\ UNCHANGED <<fs, calls>>
       \/ /\ "BasemapFetchError" \notin faults
          /\ savefig_format(frame.plot_title) \notin SupportedFormats
          /\ calls' = Append(calls, [op |-> "savefig", path |-> frame.plot_title])
          /\ pc' = "Failed"
          /\ error' = "RenderError"
          /\ UNCHANGED fs
       \/ /\ "BasemapFetchError" \notin faults
          /\ savefig_format(frame.plot_title) \in SupportedFormats
          /\ calls' = Append(calls, [op |-> "savefig", path |-> frame.plot_title])
          /\ fs' = (savefig_path(frame.plot_title) :>
                       Figure(frame.risk_layer_gdf, frame.asset_gdf,
                              frame.at_risk_properties, frame.plot_title)) @@ fs
          /\ pc' = "Rendered"
          /\ UNCHANGED error
    /\ UNCHANGED <<frame, it, stdout, faults, harnessVars>>

\* main() returns
Return ==
    /\ pc = "Rendered"
    /\ pc' = "Done"
    /\ UNCHANGED <<frame, it, fs, stdout, calls, error, faults, harnessVars>>

Next ==
    \/ ExtractConfig
    \/ ForLoop
    \/ BuildOutputPath
    \/ LoadRisk
    \/ LoadAsset
    \/ Normalize
    \/ Overlay
    \/ Save
    \/ Report
    \/ Render
    \/ Return

Spec == Init /\ [][Next]_vars

---------------------------------------------------------------------------
(* extract_config on its own, over every combination of missing keys.      *)

KeyLetter(k) ==
    CASE k = "risk_layer_path"  -> "r"
      [] k = "asset_layer_path" -> "a"
      [] k = "command_read_out" -> "c"
      [] k = "plot_title"       -> "t"

\* the entry at position i that holds the keys `present`; its values name
\* the key and the position
InputEntry(i, present) == [k \in present |-> <<KeyLetter(k), Digit[i + 1]>>]

\* the parsed documents: without `inputs`, or with up to MaxInputs entries
ConfigDocs ==
    {<<>>}
    \cup {[inputs |-> [i \in DOMAIN pat |-> InputEntry(i, pat[i])]] :
             pat \in SeqUpTo(SUBSET ConfigKeys, MaxInputs)}

\* the driver is not running
DriverIdle ==
    /\ pc = "Idle"
    /\ frame = <<>>
    /\ it = 0
    /\ fs = <<>>
    /\ stdout = <<>>
    /\ calls = <<>>
    /\ error = "none"
    /\ faults = {}

InitExtract ==
    /\ DriverIdle
    /\ arg \in ConfigDocs
    /\ ret = <<>>
    /\ called = FALSE

\* extract_config applied to the document
ApplyExtract ==
    /\ ~called
    /\ ret' = extract_config(arg)
    /\ called' = TRUE
    /\ UNCHANGED <<arg, driverVars>>

SpecExtract == InitExtract /\ [][ApplyExtract]_vars

---------------------------------------------------------------------------
(* overlay_maps on its own, over every pair of small collections.          *)

Geometries == (SUBSET (1..GridSize)) \ {{}}

\* the collections of at most n features whose rows carry `field`
Collections(n, field) ==
    {[crs      |-> WGS84,
      features |-> [i \in DOMAIN g |-> [geom |-> g[i], properties |-> (field :> i)]]] :
        g \in SeqUpTo(Geometries, n)}

InitOverlay ==
    /\ DriverIdle
    /\ \E base \in Collections(MaxBase, "address"), clip \in Collections(MaxClip, "zone") :
           arg = [flood_risk_gdf |-> clip, property_gdf |-> base]
    /\ ret = <<>>
    /\ called = FALSE

\* overlay_maps applied to the two collections
ApplyOverlay ==
    /\ ~called
    /\ ret' = overlay_maps(arg.flood_risk_gdf, arg.property_gdf)
    /\ called' = TRUE
    /\ UNCHANGED <<arg, driverVars>>

SpecOverlay == InitOverlay /\ [][ApplyOverlay]_vars

---------------------------------------------------------------------------
(* Vocabulary of the properties.                                           *)

Bound(name) == name \in DOMAIN frame

\* the positions of main() in program order; JobBound and RiskLoaded lie
\* inside the driver state ConfigLoaded
Positions ==
    <<"Init", "ConfigLoaded", "JobBound", "RiskLoaded", "LayersLoaded", "Normalized",
      "Overlaid", "Written", "Reported", "Rendered", "Done">>

Rank(p) == CHOOSE i \in 1..Len(Positions) : Positions[i] = p

At(ps) == pc \in ps

Reads == SelectSeq(calls, LAMBDA c : c.op = "read_file")

Writes == SelectSeq(calls, LAMBDA c : c.op = "to_file")

Saves == SelectSeq(calls, LAMBDA c : c.op = "savefig")

Overlays == SelectSeq(calls, LAMBDA c : c.op = "overlay")

Images == {p \in DOMAIN fs : fs[p].kind = "image"}

IsPrefix(s, t) == Len(s) <= Len(t) /\ SubSeq(t, 1, Len(s)) = s

\* the document the result writer leaves for a collection
Document(gdf) == [kind |-> "geojson", crs |-> gdf.crs, features |-> gdf.features]

\* the number a sequence of decimal digits denotes
RECURSIVE DecimalValue(_)
DecimalValue(d) ==
    IF d = <<>> THEN 0
    ELSE 10 * DecimalValue(SubSeq(d, 1, Len(d) - 1))
         + (CHOOSE v \in 0..9 : Digit[v + 1] = d[Len(d)])

\* d is the decimal numeral of n: digits only, no leading zero
IsDecimalOf(d, n) ==
    /\ d # <<>>
    /\ \A i \in 1..Len(d) : \E v \in 0..9 : Digit[v + 1] = d[i]
    /\ Len(d) = 1 \/ d[1] # "0"
    /\ DecimalValue(d) = n

---------------------------------------------------------------------------
(* Properties of the driver.                                               *)

PathsOf(cs) == [i \in 1..Len(cs) |-> cs[i].path]

\* the result file is on disk and holds the at-risk collection
ResultOnDisk ==
    /\ frame.output_path \in DOMAIN fs
    /\ fs[frame.output_path] = Document(frame.at_risk_properties)

\* C1: with N >= 1 configured descriptors only the last one is processed.
\* While the loop runs nothing is loaded, written or printed; once it has
\* ended the four job variables hold the last descriptor's fields, the only
\* layers read are its risk layer and then its asset layer, the only file
\* written is its plot_title + ".json", the only figure saved is named by
\* its plot_title and the only line printed starts with its prefix.
C1_OnlyLastJob ==
    (Bound("config_items") /\ Len(frame.config_items) >= 1) =>
        LET items == frame.config_items
            last == items[Len(items)]
        IN  /\ it < Len(items) =>
                  /\ pc = "ConfigLoaded"
                  /\ calls = <<>>
                  /\ stdout = <<>>
                  /\ Images = {}
            /\ it = Len(items) =>
                  /\ frame.risk_layer_path = last.risk_layer_path
                  /\ frame.asset_layer_path = last.asset_layer_path
                  /\ frame.command_read_out = last.command_read_out
                  /\ frame.plot_title = last.plot_title
                  /\ IsPrefix(PathsOf(Reads), <<last.risk_layer_path, last.asset_layer_path>>)
                  /\ IsPrefix(PathsOf(Writes), <<last.plot_title \o JSON_EXT>>)
                  /\ IsPrefix(PathsOf(Saves), <<last.plot_title>>)
                  /\ Len(stdout) <= 1
                  /\ stdout # <<>> => IsPrefix(last.command_read_out, stdout[1])

\* C1 witness: a finished run over two different descriptors
C1_Witness ==
    /\ pc = "Done"
    /\ Len(frame.config_items) >= 2
    /\ frame.config_items[1] # frame.config_items[Len(frame.config_items)]

C2_Step ==
    pc' # pc =>
        /\ pc \notin {"Failed", "Done"}
        /\ pc' = "Failed" \/ Rank(pc') = Rank(pc) + 1

C2_ArtifactOrder ==
    /\ stdout # <<>> =>
          /\ Len(Writes) = 1
          /\ ResultOnDisk
    /\ (Saves # <<>> \/ Images # {}) => Len(stdout) = 1

\* C2: the position of main() only ever moves to the next position of the
\* fixed order Init, ConfigLoaded, LayersLoaded, Normalized, Overlaid,
\* Written, Reported, Rendered, Done, or to failure: no position is entered
\* twice, none is skipped, none is left backwards. The result file is
\* written before the line is printed and the line is printed before the
\* figure is saved.
C2_LinearOrder == [](C2_ArtifactOrder) /\ [][C2_Step]_vars

\* C2 witness: a run that went through every position
C2_Witness == pc = "Done" /\ Len(Writes) = 1 /\ Len(stdout) = 1 /\ Len(Saves) = 1

C3_Artifacts ==
    pc = "Failed" =>
        /\ error \in {"BasemapFetchError", "RenderError"} =>
              /\ ResultOnDisk
              /\ Len(stdout) = 1
              /\ Images = {}
        /\ error = "WriteError" =>
              /\ stdout = <<>>
              /\ Saves = <<>>
              /\ Images = {}
        /\ error \in {"ConfigReadError", "ConfigParseError", "UnboundLocalError",
                      "LayerLoadError"} =>
              /\ stdout = <<>>
              /\ Writes = <<>>
              /\ Saves = <<>>
              /\ Images = {}

\* C3: a failed step ends the run: nothing happens after it, and what was
\* produced before it stays. After a failed rendering or basemap fetch the
\* result file still holds the at-risk collection and the line has been
\* printed; after a failed write nothing is printed and no figure is saved.
C3_AbortKeepsArtifacts == [](C3_Artifacts) /\ [][pc # "Failed"]_vars

\* C3 witness: the basemap fetch failed after the result file was written
C3_Witness ==
    /\ pc = "Failed"
    /\ error = "BasemapFetchError"
    /\ Len(Writes) = 1
    /\ Len(stdout) = 1

\* C4: the overlay is only ever called on two collections with the same CRS
\* tag: the risk layer as it was loaded and the asset layer reprojected to
\* the risk layer's CRS. From then on the risk layer in use is still the one
\* loaded, the asset layer keeps the risk layer's CRS, and the renderer is
\* given these same two collections.
C4_SameCrsAtOverlay ==
    /\ \A i \in 1..Len(Overlays) :
          /\ Overlays[i].base.crs = Overlays[i].clip.crs
          /\ Overlays[i].clip = load_geojson(LayerFiles, frame.risk_layer_path)
          /\ Overlays[i].base = frame.asset_gdf
    /\ Bound("at_risk_properties") =>
          /\ Len(Overlays) = 1
          /\ frame.risk_layer_gdf = load_geojson(LayerFiles, frame.risk_layer_path)
          /\ frame.asset_gdf.crs = frame.risk_layer_gdf.crs
          /\ frame.at_risk_properties.crs = frame.risk_layer_gdf.crs
    /\ \A p \in Images :
          /\ fs[p].risk = load_geojson(LayerFiles, frame.risk_layer_path)
          /\ fs[p].assets = frame.asset_gdf
          /\ fs[p].assets.crs = fs[p].risk.crs

\* C4 witness: the overlay ran on layers whose files differ in CRS
C4_Witness ==
    /\ Bound("at_risk_properties")
    /\ LayerFiles[frame.asset_layer_path].crs # LayerFiles[frame.risk_layer_path].crs

\* the file a figure saved under `title` ends up in: the title itself when
\* it ends in an extension, else the title without trailing dots followed
\* by ".png"
ImagePathFor(title) ==
    IF \E i \in 2..(Len(title) - 1) :
           /\ title[i] = "."
           /\ \A j \in (i + 1)..Len(title) : title[j] \notin {".", "/"}
           /\ \E j \in 1..(i - 1) : title[j] # "." /\ \A k \in j..i : title[k] # "/"
    THEN title
    ELSE rstrip_dot(title) \o <<".", "p", "n", "g">>

C7_Common ==
    /\ Len(Writes) = 1
    /\ Writes[1].path = frame.plot_title \o JSON_EXT
    /\ ResultOnDisk
    /\ Len(Saves) = 1
    /\ Saves[1].path = frame.plot_title
    /\ Cardinality(Images) = 1
    /\ Len(stdout) = 1
    /\ frame.plot_title = <<>> => frame.output_path = JSON_EXT

C8_ReportLine ==
    stdout # <<>> =>
        LET line == stdout[1]
            prefix == frame.command_read_out
        IN  /\ Len(stdout) = 1
            /\ IsPrefix(prefix, line)
            /\ IsDecimalOf(SubSeq(line, Len(prefix) + 1, Len(line)),
                           Len(frame.at_risk_properties.features))
            /\ ResultOnDisk
            /\ Len(fs[frame.output_path].features) = Len(frame.at_risk_properties.features)

\* C8 witness: a two-digit count has been printed after a prefix
C8_Witness ==
    /\ stdout # <<>>
    /\ frame.command_read_out # <<>>
    /\ Len(frame.at_risk_properties.features) >= 10

\* the run met no I/O fault and the title names a format the canvas writes
NothingToFail ==
    /\ faults = {}
    /\ Bound("plot_title")
    /\ savefig_format(frame.plot_title) \in SupportedFormats

\* C9: when no asset feature intersects a risk feature the at-risk
\* collection is empty and the run goes on as for any other collection: the
\* step after the overlay is enabled, the result file is written as an empty
\* collection, the count printed is 0, the figure is saved with the empty
\* layer, and the run does not fail unless an I/O fault or the title's
\* format makes it fail.
C9_EmptyIntersection ==
    (Bound("at_risk_properties") /\ frame.at_risk_properties.features = <<>>) =>
        /\ \A i \in 1..Len(frame.asset_gdf.features), j \in 1..Len(frame.risk_layer_gdf.features) :
               frame.asset_gdf.features[i].geom \cap frame.risk_layer_gdf.features[j].geom = {}
        /\ NothingToFail => pc # "Failed"
        /\ At({"Overlaid", "Written", "Reported", "Rendered"}) => ENABLED Next
        /\ At({"Written", "Reported", "Rendered", "Done"}) =>
               /\ ResultOnDisk
               /\ fs[frame.output_path].features = <<>>
        /\ At({"Reported", "Rendered", "Done"}) =>
               stdout = <<frame.command_read_out \o <<"0">>>>
        /\ At({"Rendered", "Done"}) =>
               \E p \in Images : fs[p].at_risk.features = <<>>

\* C9 witness: a finished run whose at-risk collection is empty
C9_Witness ==
    /\ pc = "Done"
    /\ frame.at_risk_properties.features = <<>>
    /\ frame.asset_gdf.features # <<>>

\* C10: with an empty sequence of descriptors the loop binds nothing and the
\* run fails at the output path, before any layer is read: it is at
\* ConfigLoaded or has failed with the unbound-variable error, no job field
\* is bound, nothing is read, written, saved or printed.
C10_EmptyConfigAborts ==
    (Bound("config_items") /\ frame.config_items = <<>>) =>
        /\ pc \in {"ConfigLoaded", "Failed"}
        /\ pc = "Failed" => error = "UnboundLocalError"
        /\ pc = "ConfigLoaded" => ENABLED BuildOutputPath
        /\ DOMAIN frame = {"config_items"}
        /\ calls = <<>>
        /\ stdout = <<>>
        /\ Images = {}
        /\ \A p \in DOMAIN StaleFiles : fs[p].kind = "stale"

\* C10 witness: the run failed on an empty `inputs` array
C10_Witness ==
    /\ pc = "Failed"
    /\ error = "UnboundLocalError"
    /\ fs[CONFIG_PATH].doc = [inputs |-> <<>>]

---------------------------------------------------------------------------
(* Properties of extract_config and overlay_maps.                          *)

\* C5: extract_config returns one descriptor per entry of `inputs`, in
\* order, and none when the key is absent; each descriptor has exactly the
\* four fields, each the entry's value for that key when the entry has it
\* and the empty string when it has not, whatever the other keys.
C5_ExtractConfig ==
    called =>
        LET inputs == IF "inputs" \in DOMAIN arg THEN arg.inputs ELSE <<>>
        IN  /\ DOMAIN ret = 1..Len(inputs)
            /\ \A i \in 1..Len(inputs) :
                  /\ DOMAIN ret[i] = ConfigKeys
                  /\ \A k \in ConfigKeys :
                        /\ k \in DOMAIN inputs[i] => ret[i][k] = inputs[i][k]
                        /\ k \notin DOMAIN inputs[i] => ret[i][k] = <<>>

\* C5 witness: two entries, the first with only a title, the second with
\* everything but a title
C5_Witness ==
    /\ called
    /\ Len(ret) = 2
    /\ DOMAIN arg.inputs[1] = {"plot_title"}
    /\ DOMAIN arg.inputs[2] = ConfigKeys \ {"plot_title"}

\* the pairs (asset row, risk row) whose geometries share a cell
OverlappingPairs ==
    {p \in (1..Len(arg.property_gdf.features)) \X (1..Len(arg.flood_risk_gdf.features)) :
        arg.property_gdf.features[p[1]].geom \cap arg.flood_risk_gdf.features[p[2]].geom # {}}

\* C6: the overlay has exactly one feature for every pair (asset feature,
\* risk feature) whose geometries overlap, its geometry is their
\* intersection, and there is no other feature: an asset feature that meets
\* no risk feature is absent from the result.
C6_OverlayIsIntersection ==
    called =>
        /\ Len(ret.features) = Cardinality(OverlappingPairs)
        /\ {<<ret.features[k].properties.address, ret.features[k].properties.zone>> :
               k \in 1..Len(ret.features)} = OverlappingPairs
        /\ \A k \in 1..Len(ret.features) :
               LET f == ret.features[k]
               IN  f.geom = arg.property_gdf.features[f.properties.address].geom
                              \cap arg.flood_risk_gdf.features[f.properties.zone].geom

\* C6 witness: one asset feature lies in two zones and another in none
C6_Witness ==
    /\ called
    /\ \E i \in 1..Len(arg.property_gdf.features) :
           Cardinality({p \in OverlappingPairs : p[1] = i}) = 2
    /\ \E i \in 1..Len(arg.property_gdf.features) :
           \A p \in OverlappingPairs : p[1] # i
    /\ Len(ret.features) = 2

=============================================================================
